---- MODULE Spec2Model ----
(***************************************************************************)
(* A model of Blank (src/src/main.rs): a macOS utility that covers the     *)
(* monitors with borderless colour-filled windows and is driven by a       *)
(* single-threaded winit event loop.                                       *)
(*                                                                         *)
(* The state is the set of locals that main() moves into the event-loop    *)
(* closure (windows, color, current_modifiers, released_a/w/q, graceful,   *)
(* cursor_timer) plus the loop's control_flow.  Every event the closure    *)
(* distinguishes is one action; each action runs the whole closure body:   *)
(* the exit-tick check (206-218), the cursor-timer check (219-230) and     *)
(* the event's own arm of the match (232-323).                             *)
(*                                                                         *)
(* The specifications:                                                     *)
(*   Spec         main() from process start: argument parsing, the window *)
(*                set, the key guards and the exit sequence.  Its events  *)
(*                are Poll ticks, Close requested, modifier changes,      *)
(*                Escape / A / W / Q presses and releases and events the  *)
(*                closure ignores.                                        *)
(*   SpecColor    Color's methods called in any order from Color::new.    *)
(*   SpecWindows  choose_windows and add_window over every monitor list,  *)
(*                with windows that move between monitors.                 *)
(*   SpecPaint    the colour keys ('=', '-', 'b') together with windows   *)
(*                that are added and closed.                               *)
(*   SpecCursor   the cursor-idle timer: cursor moves, Close requested,   *)
(*                idle calls and the clock.                                *)
(*   SpecCursorIdle  the same with no window event while a timer is       *)
(*                pending, and the fairness of the loop's scheduling.     *)
(*                                                                         *)
(* What the toolkit decides is left open: after the control flow is Exit   *)
(* the loop may call the closure again any number of times (line 206       *)
(* tests for exactly that) and may stop, with status 0, at any point.      *)
(***************************************************************************)
EXTENDS Integers, Sequences, FiniteSets, TLC

\* ------------------------------------------------------------------ bounds
\* At most this many monitors are connected.
MaxMonitors == 3
\* At most this many windows are ever built in one run (window ids 1..MaxWindowId).
MaxWindowId == 4
\* How many of the last Color calls the call log keeps.
MaxLog == 2

\* ------------------------------------------------------- program constants
MinTemperature == 1500
MaxTemperature == 6600
TemperatureStep == 100
InitialTemperature == 5500

\* Option::None of a monitor handle or a window index; monitors are 1, 2, ...
None == 0
\* cocoa::base::nil, and the NSColor colorWithRed(0, 0, 0, 1)
Nil == <<"nil", 0>>
Black == <<"black", 0>>

\* ModifiersState values: nothing held, exactly LOGO (command), LOGO with SHIFT.
LOGO == {"LOGO"}
Modifiers == {{}, LOGO, {"LOGO", "SHIFT"}}

\* The strings the process can be started with: argv[0] and what follows.
ArgLists ==
    { <<"blank">>, <<"blank", "b">>, <<"blank", "bright">>, <<"blank", "d">>,
      <<"blank", "dark">>, <<"blank", "x">>, <<"blank", "B">>, <<"blank", "">>,
      <<"blank", "bright", "d">>, <<"blank", "-d", "b">> }

VARIABLES
    pc,                \* "start", "running", "exit0", "exit1", "panic"
    argv,              \* the process arguments
    available,         \* event_loop.available_monitors(), in the OS's order
    primary,           \* event_loop.primary_monitor()
    windows,           \* Vec<Window>: records [id, monitor, cursor_visible, background]
    next_id,           \* the WindowId the next built window gets
    color,             \* Color: [temperature, dark, color_id]
    current_modifiers,
    released_a, released_w, released_q,
    graceful,
    cursor_timer,      \* <<>> (None) or <<[id, expired]>>: expired is elapsed() >= 1s
    control_flow,      \* what *control_flow holds when the closure is entered
    fired,             \* history: per guarded key, its actions since its last release
    graceful_passed,   \* history: an exit tick took the graceful branch (line 210)
    quit_accepted,     \* history: Cmd+Q was accepted while a window was open
    log                \* history: the last calls of Color's methods / window functions

vars == << pc, argv, available, primary, windows, next_id, color, current_modifiers,
           released_a, released_w, released_q, graceful, cursor_timer, control_flow,
           fired, graceful_passed, quit_accepted, log >>

\* ---------------------------------------------------------------- helpers
Range(s) == { s[i] : i \in 1..Len(s) }

Min(a, b) == IF a < b THEN a ELSE b

\* Iterator::position / Iterator::find: the first of the indices in S
\* (those whose element satisfies the closure), or 0 for None.
FirstIndex(S) == IF S = {} THEN 0 ELSE CHOOSE i \in S : \A j \in S : i <= j

\* slice::swap
Swap(s, i, j) == [s EXCEPT ![i] = s[j], ![j] = s[i]]

\* Vec::swap_remove: the last element takes the removed element's place.
SwapRemove(s, i) ==
    LET moved == [s EXCEPT ![i] = s[Len(s)]]
    IN  SubSeq(moved, 1, Len(s) - 1)

\* Iterator::take
Take(s, n) == SubSeq(s, 1, IF n < Len(s) THEN n ELSE Len(s))

\* ------------------------------------------------------------------ Color
\* tempergb::rgb_from_temperature is an external table; only its argument
\* is kept.  It never yields black in [1500, 6600] (red is 255 there).
rgb_from_temperature(t) == <<"rgb_from_temperature", t>>

Color_update(self) ==
    IF self.dark
    THEN [self EXCEPT !.color_id = Black]
    ELSE [self EXCEPT !.color_id = rgb_from_temperature(self.temperature)]

Color_new(dark) ==
    Color_update([color_id |-> Nil, temperature |-> InitialTemperature, dark |-> dark])

\* increase with the bound test off by one.
Color_increase_OffByOne(self) ==
    IF self.temperature <= MaxTemperature
    THEN [self |-> Color_update([self EXCEPT !.temperature = @ + TemperatureStep]),
          ret |-> TRUE]
    ELSE [self |-> self, ret |-> FALSE]

Color_increase(self) ==
    IF self.temperature < MaxTemperature
    THEN [self |-> Color_update([self EXCEPT !.temperature = @ + TemperatureStep]),
          ret |-> TRUE]
    ELSE [self |-> self, ret |-> FALSE]

\* toggle without the call of update.
Color_toggle_NoUpdate(self) == [self EXCEPT !.dark = ~@]

Color_toggle(self) == Color_update([self EXCEPT !.dark = ~@])

\* decrease stopping one step above the minimum.
Color_decrease_StopsEarly(self) ==
    IF self.temperature > MinTemperature + TemperatureStep
    THEN [self |-> Color_update([self EXCEPT !.temperature = @ - TemperatureStep]),
          ret |-> TRUE]
    ELSE [self |-> self, ret |-> FALSE]

Color_decrease(self) ==
    IF self.temperature > MinTemperature
    THEN [self |-> Color_update([self EXCEPT !.temperature = @ - TemperatureStep]),
          ret |-> TRUE]
    ELSE [self |-> self, ret |-> FALSE]

Color_id(self) == self.color_id

\* ---------------------------------------------------------------- windows
\* list_monitors without the swap.
list_monitors_NoSwap(monitors, primary_monitor) == monitors

\* The monitors with the primary one swapped to the end.
list_monitors(monitors, primary_monitor) ==
    IF primary_monitor # None
    THEN LET index == FirstIndex({ i \in 1..Len(monitors) : monitors[i] = primary_monitor })
         IN  IF index # 0 THEN Swap(monitors, index, Len(monitors)) ELSE monitors
    ELSE monitors

\* A window on `monitor`: cursor hidden, background set to the current colour.
build_window(id, c, monitor) ==
    [id |-> id, monitor |-> monitor, cursor_visible |-> FALSE, background |-> Color_id(c)]

\* The windows built at startup, with ids first, first+1, ...
choose_windows(monitors, primary_monitor, c, dark, first) ==
    LET available_monitors == list_monitors(monitors, primary_monitor)
        count == IF dark \/ Len(available_monitors) < 2
                 THEN Len(available_monitors)
                 ELSE Len(available_monitors) - 1
        taken == Take(available_monitors, count)
    IN  [i \in 1..Len(taken) |-> build_window(first + i - 1, c, taken[i])]

\* add_window looking only at the first open window.
add_window_FirstOnly(monitors, primary_monitor, c, current_windows, id) ==
    LET listed == list_monitors(monitors, primary_monitor)
        open == { current_windows[i].monitor :
                    i \in 1..Min(1, Len(current_windows)) } \ {None}
        index == FirstIndex({ i \in 1..Len(listed) : \A o \in open : listed[i] # o })
    IN  IF index # 0 THEN << build_window(id, c, listed[index]) >> ELSE << >>

\* Some(window) as <<window>>, None as <<>>.
add_window(monitors, primary_monitor, c, current_windows, id) ==
    LET listed == list_monitors(monitors, primary_monitor)
        open == { current_windows[i].monitor : i \in 1..Len(current_windows) } \ {None}
        index == FirstIndex({ i \in 1..Len(listed) : \A o \in open : listed[i] # o })
    IN  IF index # 0 THEN << build_window(id, c, listed[index]) >> ELSE << >>

\* remove popping the last window instead of the one found.
remove_PopsLast(ws, id) ==
    LET index == FirstIndex({ i \in 1..Len(ws) : ws[i].id = id })
    IN  IF index # 0
        THEN [windows |-> SubSeq(ws, 1, Len(ws) - 1), ret |-> TRUE]
        ELSE [windows |-> ws, ret |-> FALSE]

remove(ws, id) ==
    LET index == FirstIndex({ i \in 1..Len(ws) : ws[i].id = id })
    IN  IF index # 0
        THEN [windows |-> SwapRemove(ws, index), ret |-> TRUE]
        ELSE [windows |-> ws, ret |-> FALSE]

\* Some(index) of the window, 0 for None.
find(ws, id) == FirstIndex({ i \in 1..Len(ws) : ws[i].id = id })

set_background_color(w, c) == [w EXCEPT !.background = Color_id(c)]

set_cursor_visible(ws, id, visible) ==
    LET index == find(ws, id)
    IN  IF index # 0 THEN [ws EXCEPT ![index].cursor_visible = visible] ELSE ws

\* ------------------------------------------------------------- event loop
\* ControlFlow::Exit is sticky in winit: once a call of the closure leaves
\* *control_flow at Exit, every later call is entered with Exit, whatever the
\* closure writes (the check at line 206 relies on it).
Sticky(cf) == IF control_flow = "Exit" THEN "Exit" ELSE cf

\* exit_check as the prose has it: a window set that is not empty aborts.
exit_check_AbortOnWindows(is_poll) ==
    IF control_flow = "Exit" /\ is_poll
    THEN IF windows = << >>
         THEN [panic |-> FALSE, windows |-> windows, graceful |-> FALSE]
         ELSE [panic |-> TRUE, windows |-> windows, graceful |-> graceful]
    ELSE [panic |-> FALSE, windows |-> windows, graceful |-> graceful]

\* Lines 206-218: what the exit check makes of windows and graceful.
exit_check(is_poll) ==
    IF control_flow = "Exit" /\ is_poll
    THEN IF windows = << >>
         THEN IF graceful
              THEN [panic |-> FALSE, windows |-> windows, graceful |-> FALSE]
              ELSE [panic |-> TRUE, windows |-> windows, graceful |-> graceful]
         ELSE [panic |-> FALSE, windows |-> << >>, graceful |-> graceful]
    ELSE [panic |-> FALSE, windows |-> windows, graceful |-> graceful]

\* timer_check that leaves the loop in blocking wait while the timer runs.
timer_check_StaysWaiting(ws) ==
    IF cursor_timer # << >>
    THEN IF cursor_timer[1].expired
         THEN [cursor_timer |-> << >>,
               windows |-> set_cursor_visible(ws, cursor_timer[1].id, FALSE),
               control_flow |-> "Wait"]
         ELSE [cursor_timer |-> cursor_timer, windows |-> ws, control_flow |-> "Wait"]
    ELSE [cursor_timer |-> cursor_timer, windows |-> ws, control_flow |-> "Wait"]

\* Lines 219-230: control_flow = Wait, then the cursor-idle timer.
timer_check(ws) ==
    IF cursor_timer # << >>
    THEN IF cursor_timer[1].expired
         THEN [cursor_timer |-> << >>,
               windows |-> set_cursor_visible(ws, cursor_timer[1].id, FALSE),
               control_flow |-> "Wait"]
         ELSE [cursor_timer |-> cursor_timer, windows |-> ws, control_flow |-> "Poll"]
    ELSE [cursor_timer |-> cursor_timer, windows |-> ws, control_flow |-> "Wait"]

\* Lines 206-230 for one call of the closure.
prologue(is_poll) ==
    LET e == exit_check(is_poll)
        t == timer_check(e.windows)
    IN  [panic |-> e.panic, graceful |-> e.graceful, windows |-> t.windows,
         cursor_timer |-> t.cursor_timer, control_flow |-> t.control_flow]

\* The ids of the windows built so far: a window event names one of them,
\* also one that is closed by now (remove and find return false / None then).
WindowIds == 1..(next_id - 1)

GuardedKeys == {"A", "W", "Q"}

\* What no call of the closure touches.
Fixed == UNCHANGED << argv, available, primary, log >>

\* remove_and_exit with `graceful = true` forgotten.
remove_and_exit_NoGraceful(p, window_id) ==
    LET r == remove(p.windows, window_id)
        last == r.ret /\ r.windows = << >>
    IN  /\ windows' = r.windows
        /\ graceful' = p.graceful
        /\ control_flow' = Sticky(IF last THEN "Exit" ELSE p.control_flow)

\* `remove(&mut windows, window_id) && windows.is_empty()` followed by the
\* graceful-exit assignments (lines 244-247, 282-285, 305-308), on the state
\* p the prologue left.
remove_and_exit(p, window_id) ==
    LET r == remove(p.windows, window_id)
        last == r.ret /\ r.windows = << >>
    IN  /\ windows' = r.windows
        /\ graceful' = (IF last THEN TRUE ELSE p.graceful)
        /\ control_flow' = Sticky(IF last THEN "Exit" ELSE p.control_flow)

\* Startup with an unrecognized argument falling through to the dark default.
Startup_Lenient ==
    /\ pc = "start"
    /\ LET arg == IF Len(argv) >= 2 THEN << argv[2] >> ELSE << >>
           dark == ~(arg # << >> /\ arg[1] \in {"b", "bright"})
           c == Color_new(dark)
           ws == choose_windows(available, primary, c, dark, next_id)
       IN  /\ color' = c
           /\ windows' = ws
           /\ next_id' = next_id + Len(ws)
           /\ pc' = "running"
    /\ UNCHANGED << current_modifiers, released_a, released_w, released_q, graceful,
                    cursor_timer, control_flow, fired, graceful_passed, quit_accepted >>
    /\ Fixed

\* main() up to event_loop.run: lines 180-203.
Startup ==
    /\ pc = "start"
    /\ LET arg == IF Len(argv) >= 2 THEN << argv[2] >> ELSE << >>
       IN  IF arg = << >> \/ arg[1] \in {"b", "bright", "d", "dark"}
           THEN LET dark == ~(arg # << >> /\ arg[1] \in {"b", "bright"})
                    c == Color_new(dark)
                    ws == choose_windows(available, primary, c, dark, next_id)
                IN  /\ color' = c
                    /\ windows' = ws
                    /\ next_id' = next_id + Len(ws)
                    /\ pc' = "running"
           ELSE /\ pc' = "exit1"
                /\ UNCHANGED << color, windows, next_id >>
    /\ UNCHANGED << current_modifiers, released_a, released_w, released_q, graceful,
                    cursor_timer, control_flow, fired, graceful_passed, quit_accepted >>
    /\ Fixed

\* Event::NewEvents(StartCause::Poll): sent after the control flow was Poll,
\* and while the loop winds down after Exit.
NewEventsPoll ==
    /\ pc = "running"
    /\ control_flow \in {"Poll", "Exit"}
    /\ LET p == prologue(TRUE)
       IN  IF p.panic
           THEN /\ pc' = "panic"
                /\ UNCHANGED << windows, graceful, cursor_timer, control_flow,
                                graceful_passed >>
           ELSE /\ pc' = pc
                /\ windows' = p.windows
                /\ graceful' = p.graceful
                /\ cursor_timer' = p.cursor_timer
                /\ control_flow' = Sticky(p.control_flow)
                /\ graceful_passed' =
                       (graceful_passed
                           \/ (control_flow = "Exit" /\ windows = << >> /\ graceful))
    /\ UNCHANGED << next_id, color, current_modifiers, released_a, released_w,
                    released_q, fired, quit_accepted >>
    /\ Fixed

\* Any other event that is no WindowEvent (MainEventsCleared, NewEvents with
\* another cause, ...) and every WindowEvent of the `_ => ()` arms.
OtherEvent ==
    /\ pc = "running"
    /\ LET p == prologue(FALSE)
       IN  /\ windows' = p.windows
           /\ cursor_timer' = p.cursor_timer
           /\ control_flow' = Sticky(p.control_flow)
    /\ UNCHANGED << pc, next_id, color, current_modifiers, released_a, released_w,
                    released_q, graceful, fired, graceful_passed, quit_accepted >>
    /\ Fixed

\* WindowEvent::CursorMoved, lines 234-242.
CursorMoved(window_id) ==
    /\ pc = "running"
    /\ LET p == prologue(FALSE)
       IN  /\ control_flow' = Sticky(p.control_flow)
           /\ IF p.cursor_timer # << >> /\ p.cursor_timer[1].id = window_id
              THEN /\ cursor_timer' = << [id |-> window_id, expired |-> FALSE] >>
                   /\ windows' = p.windows
              ELSE IF find(p.windows, window_id) # 0
                   THEN /\ windows' = set_cursor_visible(p.windows, window_id, TRUE)
                        /\ cursor_timer' = << [id |-> window_id, expired |-> FALSE] >>
                   ELSE /\ windows' = p.windows
                        /\ cursor_timer' = p.cursor_timer
    /\ UNCHANGED << pc, next_id, color, current_modifiers, released_a, released_w,
                    released_q, graceful, fired, graceful_passed, quit_accepted >>
    /\ Fixed

\* WindowEvent::CloseRequested, lines 243-248.
CloseRequested(window_id) ==
    /\ pc = "running"
    /\ LET p == prologue(FALSE)
       IN  /\ remove_and_exit(p, window_id)
           /\ cursor_timer' = p.cursor_timer
    /\ UNCHANGED << pc, next_id, color, current_modifiers, released_a, released_w,
                    released_q, fired, graceful_passed, quit_accepted >>
    /\ Fixed

\* WindowEvent::ModifiersChanged, lines 249-251.
ModifiersChanged(modifiers) ==
    /\ pc = "running"
    /\ LET p == prologue(FALSE)
       IN  /\ windows' = p.windows
           /\ cursor_timer' = p.cursor_timer
           /\ control_flow' = Sticky(p.control_flow)
    /\ current_modifiers' = modifiers
    /\ UNCHANGED << pc, next_id, color, released_a, released_w, released_q, graceful,
                    fired, graceful_passed, quit_accepted >>
    /\ Fixed

\* The repaint loop stopping one window short.
repaint_SkipsLast(ws, c) ==
    [i \in 1..Len(ws) |-> IF i < Len(ws) THEN set_background_color(ws[i], c) ELSE ws[i]]

\* `for window in &windows { set_background_color(window, &color) }`
repaint(ws, c) == [i \in 1..Len(ws) |-> set_background_color(ws[i], c)]

\* WindowEvent::ReceivedCharacter('='), lines 252-258.
ReceivedEquals ==
    /\ pc = "running"
    /\ LET p == prologue(FALSE)
           r == Color_increase(color)
       IN  /\ color' = r.self
           /\ windows' = (IF r.ret THEN repaint(p.windows, r.self) ELSE p.windows)
           /\ cursor_timer' = p.cursor_timer
           /\ control_flow' = Sticky(p.control_flow)
    /\ UNCHANGED << pc, next_id, current_modifiers, released_a, released_w, released_q,
                    graceful, fired, graceful_passed, quit_accepted >>
    /\ Fixed

\* WindowEvent::ReceivedCharacter('-'), lines 259-265.
ReceivedMinus ==
    /\ pc = "running"
    /\ LET p == prologue(FALSE)
           r == Color_decrease(color)
       IN  /\ color' = r.self
           /\ windows' = (IF r.ret THEN repaint(p.windows, r.self) ELSE p.windows)
           /\ cursor_timer' = p.cursor_timer
           /\ control_flow' = Sticky(p.control_flow)
    /\ UNCHANGED << pc, next_id, current_modifiers, released_a, released_w, released_q,
                    graceful, fired, graceful_passed, quit_accepted >>
    /\ Fixed

\* WindowEvent::ReceivedCharacter('b'), lines 266-271.
ReceivedB ==
    /\ pc = "running"
    /\ LET p == prologue(FALSE)
           c == Color_toggle(color)
       IN  /\ color' = c
           /\ windows' = repaint(p.windows, c)
           /\ cursor_timer' = p.cursor_timer
           /\ control_flow' = Sticky(p.control_flow)
    /\ UNCHANGED << pc, next_id, current_modifiers, released_a, released_w, released_q,
                    graceful, fired, graceful_passed, quit_accepted >>
    /\ Fixed

\* KeyboardInput (Escape, Released), lines 281-286.
EscapeReleased(window_id) ==
    /\ pc = "running"
    /\ LET p == prologue(FALSE)
       IN  /\ remove_and_exit(p, window_id)
           /\ cursor_timer' = p.cursor_timer
    /\ UNCHANGED << pc, next_id, color, current_modifiers, released_a, released_w,
                    released_q, fired, graceful_passed, quit_accepted >>
    /\ Fixed

\* KeyboardInput (A | W | Q, Released), lines 287-289, 298-300, 310-312.
KeyReleased(key) ==
    /\ pc = "running"
    /\ LET p == prologue(FALSE)
       IN  /\ windows' = p.windows
           /\ cursor_timer' = p.cursor_timer
           /\ control_flow' = Sticky(p.control_flow)
    /\ released_a' = (IF key = "A" THEN TRUE ELSE released_a)
    /\ released_w' = (IF key = "W" THEN TRUE ELSE released_w)
    /\ released_q' = (IF key = "Q" THEN TRUE ELSE released_q)
    /\ fired' = [fired EXCEPT ![key] = 0]
    /\ UNCHANGED << pc, next_id, color, current_modifiers, graceful, graceful_passed,
                    quit_accepted >>
    /\ Fixed

\* The match guard without the key-repeat flag.
accepted_NoGuard(released) == current_modifiers = LOGO

\* The match guard of lines 291, 302 and 314.
accepted(released) == released /\ current_modifiers = LOGO

\* A rejected Pressed event that still consumes the key-repeat guards.
ignored_ClearsGuards(p) ==
    /\ windows' = p.windows
    /\ cursor_timer' = p.cursor_timer
    /\ control_flow' = Sticky(p.control_flow)
    /\ released_a' = FALSE
    /\ released_w' = FALSE
    /\ released_q' = FALSE
    /\ UNCHANGED << next_id, graceful, fired, quit_accepted >>

\* A Pressed event whose guard fails falls to `_ => ()` (line 319).
ignored(p) ==
    /\ windows' = p.windows
    /\ cursor_timer' = p.cursor_timer
    /\ control_flow' = Sticky(p.control_flow)
    /\ UNCHANGED << next_id, released_a, released_w, released_q, graceful, fired,
                    quit_accepted >>

\* KeyboardInput (A, Pressed), lines 290-297.
APressed(window_id) ==
    /\ pc = "running"
    /\ LET p == prologue(FALSE)
       IN  IF accepted(released_a)
           THEN LET w == add_window(available, primary, color, p.windows, next_id)
                IN  /\ w # << >> => next_id <= MaxWindowId
                    /\ released_a' = FALSE
                    /\ fired' = [fired EXCEPT !["A"] = Min(@ + 1, 2)]
                    /\ windows' = p.windows \o w
                    /\ next_id' = next_id + Len(w)
                    /\ cursor_timer' = p.cursor_timer
                    /\ control_flow' = Sticky(p.control_flow)
                    /\ UNCHANGED << released_w, released_q, graceful, quit_accepted >>
           ELSE ignored(p)
    /\ UNCHANGED << pc, color, current_modifiers, graceful_passed >>
    /\ Fixed

\* KeyboardInput (W, Pressed), lines 301-309.
WPressed(window_id) ==
    /\ pc = "running"
    /\ LET p == prologue(FALSE)
       IN  IF accepted(released_w)
           THEN /\ released_w' = FALSE
                /\ fired' = [fired EXCEPT !["W"] = Min(@ + 1, 2)]
                /\ remove_and_exit(p, window_id)
                /\ cursor_timer' = p.cursor_timer
                /\ UNCHANGED << next_id, released_a, released_q, quit_accepted >>
           ELSE ignored(p)
    /\ UNCHANGED << pc, color, current_modifiers, graceful_passed >>
    /\ Fixed

\* The Q arm closing the event's window the way the W arm does.
QPressed_Removes(window_id) ==
    /\ pc = "running"
    /\ LET p == prologue(FALSE)
       IN  IF accepted(released_q)
           THEN /\ released_q' = FALSE
                /\ fired' = [fired EXCEPT !["Q"] = Min(@ + 1, 2)]
                /\ windows' = remove(p.windows, window_id).windows
                /\ control_flow' = "Exit"
                /\ quit_accepted' = (quit_accepted \/ p.windows # << >>)
                /\ cursor_timer' = p.cursor_timer
                /\ UNCHANGED << next_id, released_a, released_w, graceful >>
           ELSE ignored(p)
    /\ UNCHANGED << pc, color, current_modifiers, graceful_passed >>
    /\ Fixed

\* KeyboardInput (Q, Pressed), lines 313-318.
QPressed(window_id) ==
    /\ pc = "running"
    /\ LET p == prologue(FALSE)
       IN  IF accepted(released_q)
           THEN /\ released_q' = FALSE
                /\ fired' = [fired EXCEPT !["Q"] = Min(@ + 1, 2)]
                /\ control_flow' = "Exit"
                /\ quit_accepted' = (quit_accepted \/ p.windows # << >>)
                /\ windows' = p.windows
                /\ cursor_timer' = p.cursor_timer
                /\ UNCHANGED << next_id, released_a, released_w, graceful >>
           ELSE ignored(p)
    /\ UNCHANGED << pc, color, current_modifiers, graceful_passed >>
    /\ Fixed

\* event_loop.run (line 205) never returns: once the control flow is Exit
\* winit stops the loop and ends the process with status 0.  When it does so
\* (before or after further calls of the closure) is the toolkit's choice.
LoopExit ==
    /\ pc = "running"
    /\ control_flow = "Exit"
    /\ pc' = "exit0"
    /\ UNCHANGED << windows, next_id, color, current_modifiers, released_a, released_w,
                    released_q, graceful, cursor_timer, control_flow, fired,
                    graceful_passed, quit_accepted >>
    /\ Fixed

\* A second goes by without the timer being reset.
TimePasses ==
    /\ pc = "running"
    /\ cursor_timer # << >>
    /\ ~cursor_timer[1].expired
    /\ cursor_timer' = << [cursor_timer[1] EXCEPT !.expired = TRUE] >>
    /\ UNCHANGED << pc, windows, next_id, color, current_modifiers, released_a,
                    released_w, released_q, graceful, control_flow, fired,
                    graceful_passed, quit_accepted >>
    /\ Fixed

\* The monitor configurations: monitors 1..n in the OS's order, one of them
\* the primary (on macOS primary_monitor() is the main display, always listed).
MonitorLists == { [i \in 1..n |-> i] : n \in 1..MaxMonitors }

Init ==
    /\ pc = "start"
    /\ argv \in ArgLists
    /\ available \in MonitorLists
    /\ primary \in Range(available)
    /\ windows = << >>
    /\ next_id = 1
    /\ color = [color_id |-> Nil, temperature |-> InitialTemperature, dark |-> FALSE]
    /\ current_modifiers = {}
    /\ released_a = TRUE
    /\ released_w = TRUE
    /\ released_q = TRUE
    /\ graceful = FALSE
    /\ cursor_timer = << >>
    /\ control_flow = "Poll"
    /\ fired = [k \in GuardedKeys |-> 0]
    /\ graceful_passed = FALSE
    /\ quit_accepted = FALSE
    /\ log = << >>

\* The events of the window set, the key guards and the exit sequence.
Next ==
    \/ Startup
    \/ NewEventsPoll
    \/ OtherEvent
    \/ \E id \in WindowIds : CloseRequested(id)
    \/ \E m \in Modifiers : ModifiersChanged(m)
    \/ \E id \in WindowIds : EscapeReleased(id)
    \/ \E k \in GuardedKeys : KeyReleased(k)
    \/ \E id \in WindowIds : APressed(id)
    \/ \E id \in WindowIds : WPressed(id)
    \/ \E id \in WindowIds : QPressed(id)
    \/ LoopExit

Spec == Init /\ [][Next]_vars

\* ------------------------------------------------- the exit sequence (Spec)
\* The ids of the open windows.
OpenIds(ws) == { ws[i].id : i \in 1..Len(ws) }

\* A step in which Close requested, Escape released or an accepted Cmd+W
\* removes the last open window.
RemovesLastWindow ==
    /\ windows # << >>
    /\ windows' = << >>
    /\ \E id \in WindowIds :
          \/ CloseRequested(id)
          \/ EscapeReleased(id)
          \/ (WPressed(id) /\ accepted(released_w))

\* A Poll tick that is entered with the control flow at Exit.
ExitTick == NewEventsPoll /\ control_flow = "Exit"

\* A step in which Cmd+Q is accepted while a window is open.
QuitAccepted ==
    /\ windows # << >>
    /\ accepted(released_q)
    /\ \E id \in WindowIds : QPressed(id)

\* C1, as stated: once the Poll tick that follows the removal of the last
\* window has found the window set still empty (and so taken the graceful
\* branch), the run never reaches the "Force exit" abort.
C1_Original == graceful_passed => pc # "panic"

\* C1, amended: removing the last window by Close requested, Escape released
\* or Cmd+W sets graceful and leaves the control flow at Exit; graceful then
\* stays set until a Poll tick finds the window set empty; that tick clears
\* the flag and does not abort, so the loop can stop with status 0; a Poll
\* tick that finds the set empty with the flag clear (a second one in a row,
\* for instance) does reach "Force exit".
C1_GracefulExit ==
    [][ /\ RemovesLastWindow => (graceful' /\ control_flow' = "Exit")
        /\ (graceful /\ ~graceful') => (ExitTick /\ windows = << >>)
        /\ (ExitTick /\ windows = << >> /\ graceful) =>
               (~graceful' /\ pc' = "running" /\ windows' = << >>)
        /\ (ExitTick /\ windows = << >> /\ ~graceful) => pc' = "panic"
        /\ (graceful_passed' /\ pc' = "exit0") => (LoopExit \/ pc = "exit0")
      ]_vars

\* C1's case: the last window was removed, the following tick took the
\* graceful branch and the loop stopped with status 0.
C1_Witness ==
    /\ graceful_passed
    /\ ~quit_accepted
    /\ pc = "exit0"
    /\ windows = << >>

\* C2: for each guarded key, its action fires at most once between two
\* consecutive releases of the key (and before its first release), whatever
\* presses and modifier changes arrive in between.
C2_AtMostOncePerRelease == \A k \in GuardedKeys : fired[k] <= 1

\* C2's case: each of the three keys has fired its action and is still held.
C2_Witness ==
    /\ \A k \in GuardedKeys : fired[k] = 1
    /\ ~released_a /\ ~released_w /\ ~released_q

\* C3, as stated: after Cmd+Q is accepted with a window open, the run never
\* reaches the "Force exit" abort.
C3_Original == quit_accepted => pc # "panic"

\* C3, amended: accepting Cmd+Q with a window open removes no window, leaves
\* graceful as it was and sets the control flow to Exit; the Poll tick that
\* then finds windows open closes them all without aborting; the abort is
\* reached by a Poll tick that finds the set empty with graceful clear, so
\* the sequence ends with status 0 only if the loop stops before such a tick.
C3_QuitSequence ==
    [][ /\ QuitAccepted =>
              /\ OpenIds(windows') = OpenIds(windows)
              /\ graceful' = graceful
              /\ control_flow' = "Exit"
              /\ pc' = "running"
        /\ (ExitTick /\ windows # << >>) => (windows' = << >> /\ pc' = "running")
        /\ (pc = "running" /\ pc' = "panic") =>
              (ExitTick /\ windows = << >> /\ ~graceful)
      ]_vars

\* C3's case: Cmd+Q was accepted with a window open, a tick closed the
\* windows and the loop stopped with status 0.
C3_Witness ==
    /\ quit_accepted
    /\ ~graceful_passed
    /\ ~graceful
    /\ windows = << >>
    /\ pc = "exit0"

\* C4, as stated: a Poll tick after an exit request aborts exactly when the
\* window set is not empty.
C4_Original ==
    [][ ExitTick => ((pc' = "panic") <=> (windows # << >>)) ]_vars

\* C4, amended: a Poll tick after an exit request aborts exactly when the
\* window set is empty and graceful is clear; with the set empty and
\* graceful set it clears the flag and the loop goes on to stop normally;
\* with the set not empty it empties the set and does not abort.
C4_ExitTick ==
    [][ ExitTick =>
          /\ (pc' = "panic") <=> (windows = << >> /\ ~graceful)
          /\ windows # << >> => (windows' = << >> /\ graceful' = graceful)
          /\ (windows = << >> /\ graceful) => (windows' = << >> /\ ~graceful')
      ]_vars

\* C4's case: after an exit request a tick found windows open and closed
\* them (nothing else empties the set without setting graceful).
C4_Witness ==
    /\ pc = "running"
    /\ control_flow = "Exit"
    /\ quit_accepted
    /\ windows = << >>
    /\ ~graceful
    /\ ~graceful_passed

\* The argument at position 1, as Some(<<s>>) or None(<<>>).
Arg1 == IF Len(argv) >= 2 THEN << argv[2] >> ELSE << >>

\* C10: `b` or `bright` at position 1 starts non-dark, `d`, `dark` or no
\* argument starts dark, and anything else exits with status 1 with no
\* window built and the event loop not started.
C10_Arguments ==
    [][ pc = "start" =>
          /\ (Arg1 # << >> /\ Arg1[1] \in {"b", "bright"}) =>
                (pc' = "running" /\ ~color'.dark)
          /\ (Arg1 = << >> \/ Arg1[1] \in {"d", "dark"}) =>
                (pc' = "running" /\ color'.dark)
          /\ (Arg1 # << >> /\ Arg1[1] \notin {"b", "bright", "d", "dark"}) =>
                (pc' = "exit1" /\ windows' = << >> /\ next_id' = 1
                 /\ control_flow' = control_flow)
        /\ pc # "exit1"
      ]_vars

\* C10's case: an unrecognized argument ended the process with status 1.
C10_Witness ==
    /\ pc = "exit1"
    /\ Arg1 = << "x" >>
    /\ windows = << >>

\* ------------------------------------------------ Color by itself (SpecColor)
\* The call log: the last MaxLog calls, the newest last.
Push(l, e) == IF Len(l) < MaxLog THEN Append(l, e) ELSE Append(Tail(l), e)

\* What the event loop holds while a function is exercised by itself.
Idle ==
    /\ argv = << "blank" >>
    /\ current_modifiers = {}
    /\ released_a = TRUE
    /\ released_w = TRUE
    /\ released_q = TRUE
    /\ graceful = FALSE
    /\ cursor_timer = << >>
    /\ control_flow = "Poll"
    /\ fired = [k \in GuardedKeys |-> 0]
    /\ graceful_passed = FALSE
    /\ quit_accepted = FALSE
    /\ log = << >>

IdleUnchanged ==
    UNCHANGED << pc, argv, available, primary, current_modifiers, released_a,
                 released_w, released_q, graceful, cursor_timer, control_flow, fired,
                 graceful_passed, quit_accepted >>

\* A Color as Color::new leaves it, dark or not.
InitColor ==
    /\ pc = "color"
    /\ available = << 1 >>
    /\ primary = 1
    /\ windows = << >>
    /\ next_id = 1
    /\ color \in { Color_new(dark) : dark \in BOOLEAN }
    /\ Idle

\* color.increase()
CallIncrease ==
    /\ pc = "color"
    /\ LET r == Color_increase(color)
       IN  /\ color' = r.self
           /\ log' = Push(log, [op |-> "increase", before |-> color,
                                after |-> r.self, ret |-> r.ret])
    /\ UNCHANGED << windows, next_id >>
    /\ IdleUnchanged

\* color.decrease()
CallDecrease ==
    /\ pc = "color"
    /\ LET r == Color_decrease(color)
       IN  /\ color' = r.self
           /\ log' = Push(log, [op |-> "decrease", before |-> color,
                                after |-> r.self, ret |-> r.ret])
    /\ UNCHANGED << windows, next_id >>
    /\ IdleUnchanged

\* color.toggle()
CallToggle ==
    /\ pc = "color"
    /\ LET c == Color_toggle(color)
       IN  /\ color' = c
           /\ log' = Push(log, [op |-> "toggle", before |-> color,
                                after |-> c, ret |-> TRUE])
    /\ UNCHANGED << windows, next_id >>
    /\ IdleUnchanged

NextColor == CallIncrease \/ CallDecrease \/ CallToggle

SpecColor == InitColor /\ [][NextColor]_vars

\* C7: increase at 6600 and decrease at 1500 return false and leave the
\* temperature and the dark flag as they were; at every other temperature
\* each returns true and moves the temperature by exactly 100 (the dark
\* flag untouched).
C7_Bounds ==
    \A i \in 1..Len(log) :
        LET e == log[i] IN
        /\ e.op = "increase" =>
              IF e.before.temperature = 6600
              THEN ~e.ret /\ e.after.temperature = 6600 /\ e.after.dark = e.before.dark
              ELSE e.ret /\ e.after.temperature = e.before.temperature + 100
                         /\ e.after.dark = e.before.dark
        /\ e.op = "decrease" =>
              IF e.before.temperature = 1500
              THEN ~e.ret /\ e.after.temperature = 1500 /\ e.after.dark = e.before.dark
              ELSE e.ret /\ e.after.temperature = e.before.temperature - 100
                         /\ e.after.dark = e.before.dark

\* C7's case: increase was called at 6600.
C7_Witness ==
    /\ log # << >>
    /\ log[Len(log)].op = "increase"
    /\ log[Len(log)].before.temperature = 6600
    /\ ~log[Len(log)].ret

\* The temperatures of the claim: 1500, 1600, ..., 6600.
Temperatures == { 1500 + 100 * k : k \in 0..51 }

\* C8: from a temperature t below 6600 increase followed by decrease ends at
\* t, and from t above 1500 decrease followed by increase ends at t; every
\* temperature a Color takes is one of 1500, 1600, ..., 6600.
C8_RoundTrip ==
    /\ color.temperature \in Temperatures
    /\ \A i \in 1..(Len(log) - 1) :
          LET first == log[i]
              second == log[i + 1]
              t == first.before.temperature
          IN  /\ (first.op = "increase" /\ second.op = "decrease" /\ t < 6600) =>
                    second.after.temperature = t
              /\ (first.op = "decrease" /\ second.op = "increase" /\ t > 1500) =>
                    second.after.temperature = t

\* C8's case: increase then decrease were called from the lowest temperature.
C8_Witness ==
    /\ Len(log) >= 2
    /\ log[Len(log) - 1].op = "increase"
    /\ log[Len(log) - 1].before.temperature = 1500
    /\ log[Len(log)].op = "decrease"
    /\ color.temperature = 1500

\* C9: one toggle flips the dark flag, keeps the temperature and leaves the
\* fill colour black when dark and the temperature's colour otherwise; two
\* toggles in a row restore dark flag, temperature and fill colour.
C9_Toggle ==
    /\ \A i \in 1..Len(log) :
          LET e == log[i] IN
          e.op = "toggle" =>
              /\ e.after.dark = ~e.before.dark
              /\ e.after.temperature = e.before.temperature
              /\ e.after.color_id =
                    (IF e.after.dark THEN Black
                     ELSE rgb_from_temperature(e.before.temperature))
    /\ \A i \in 1..(Len(log) - 1) :
          (log[i].op = "toggle" /\ log[i + 1].op = "toggle") =>
              log[i + 1].after = log[i].before

\* C9's case: toggle was called twice in a row away from the initial
\* temperature.
C9_Witness ==
    /\ Len(log) >= 2
    /\ log[Len(log) - 1].op = "toggle"
    /\ log[Len(log)].op = "toggle"
    /\ color.temperature # InitialTemperature
    /\ ~color.dark

\* ------------------------------------ the window functions (SpecWindows)
\* The monitors are known and no window is built yet.
InitWindows ==
    /\ pc = "monitors"
    /\ available \in MonitorLists
    /\ primary \in Range(available)
    /\ windows = << >>
    /\ next_id = 1
    /\ color \in { Color_new(dark) : dark \in BOOLEAN }
    /\ Idle

\* windows = choose_windows(&event_loop, &color, dark)
CallChooseWindows(dark) ==
    /\ pc = "monitors"
    /\ LET ws == choose_windows(available, primary, color, dark, next_id)
       IN  /\ windows' = ws
           /\ next_id' = next_id + Len(ws)
           /\ log' = << [op |-> "choose_windows", arg |-> dark, before |-> windows,
                         ret |-> ws] >>
    /\ pc' = "windows"
    /\ UNCHANGED << argv, available, primary, color, current_modifiers, released_a,
                    released_w, released_q, graceful, cursor_timer, control_flow, fired,
                    graceful_passed, quit_accepted >>

\* if let Some(window) = add_window(..) { windows.push(window) }
CallAddWindow ==
    /\ pc = "windows"
    /\ LET w == add_window(available, primary, color, windows, next_id)
       IN  /\ w # << >> => next_id <= MaxWindowId
           /\ windows' = windows \o w
           /\ next_id' = next_id + Len(w)
           /\ log' = << [op |-> "add_window", arg |-> FALSE, before |-> windows,
                         ret |-> w] >>
    /\ UNCHANGED color
    /\ IdleUnchanged

\* Window::current_monitor() is where the window is now: the user can move a
\* window to another monitor, and the call can return None.
WindowMoves(i, m) ==
    /\ pc = "windows"
    /\ i \in 1..Len(windows)
    /\ windows[i].monitor # m
    /\ windows' = [windows EXCEPT ![i].monitor = m]
    /\ log' = << >>
    /\ UNCHANGED << color, next_id >>
    /\ IdleUnchanged

NextWindows ==
    \/ \E dark \in BOOLEAN : CallChooseWindows(dark)
    \/ CallAddWindow
    \/ \E i \in 1..MaxWindowId, m \in Range(available) \cup {None} : WindowMoves(i, m)

SpecWindows == InitWindows /\ [][NextWindows]_vars

\* The monitors of a sequence of windows.
MonitorsOf(ws) == { ws[i].monitor : i \in 1..Len(ws) }

\* C5: with n >= 1 monitors choose_windows returns n windows, one per
\* monitor, when dark is true or n = 1; when dark is false and n >= 2 it
\* returns n-1 windows, one per monitor other than the primary.
C5_ChooseWindows ==
    \A i \in 1..Len(log) :
        LET e == log[i]
            n == Len(available)
        IN  e.op = "choose_windows" =>
              IF e.arg \/ n = 1
              THEN /\ Len(e.ret) = n
                   /\ MonitorsOf(e.ret) = Range(available)
              ELSE /\ Len(e.ret) = n - 1
                   /\ MonitorsOf(e.ret) = Range(available) \ {primary}

\* C5's case: choose_windows ran bright on three monitors whose primary is
\* not the last one the OS lists.
C5_Witness ==
    /\ log # << >>
    /\ log[1].op = "choose_windows"
    /\ ~log[1].arg
    /\ Len(available) = 3
    /\ primary = 1
    /\ Len(log[1].ret) = 2

\* The monitors no window of ws is on at the moment.
Uncovered(ws) == Range(available) \ MonitorsOf(ws)

\* C6: add_window returns none exactly when every monitor is the current
\* monitor of some open window; otherwise it returns a new window on the
\* first monitor of the list_monitors order (the primary last) that no open
\* window is on.
C6_AddWindow ==
    \A i \in 1..Len(log) :
        LET e == log[i]
            listed == list_monitors(available, primary)
        IN  e.op = "add_window" =>
              /\ listed[Len(listed)] = primary
              /\ (e.ret = << >>) <=> (Uncovered(e.before) = {})
              /\ e.ret # << >> =>
                    /\ e.ret[1].id \notin OpenIds(e.before)
                    /\ e.ret[1].monitor \in Uncovered(e.before)
                    /\ \E k \in 1..Len(listed) :
                          /\ listed[k] = e.ret[1].monitor
                          /\ \A j \in 1..(k - 1) : listed[j] \notin Uncovered(e.before)

\* C6's case: add_window returned none although a window reports no current
\* monitor, every monitor being covered by the others.
C6_Witness ==
    /\ log # << >>
    /\ log[1].op = "add_window"
    /\ log[1].ret = << >>
    /\ Len(available) >= 2
    /\ None \in MonitorsOf(log[1].before)

\* ------------------------------------------ colour and windows (SpecPaint)
\* main() started dark or bright.
InitPaint ==
    /\ Init
    /\ argv \in { << "blank" >>, << "blank", "bright" >> }

\* The colour keys, and the events that open and close windows.
NextPaint ==
    \/ Startup
    \/ ReceivedEquals
    \/ ReceivedMinus
    \/ ReceivedB
    \/ ModifiersChanged(LOGO)
    \/ \E id \in WindowIds : APressed(id)
    \/ KeyReleased("A")
    \/ \E id \in WindowIds : CloseRequested(id)

SpecPaint == InitPaint /\ [][NextPaint]_vars

\* The fill colour the colour state stands for.
DerivedColor ==
    IF color.dark THEN Black ELSE rgb_from_temperature(color.temperature)

\* C11: once the loop runs, every open window's background is the current
\* derived colour (black if dark, else the colour of the temperature), for
\* the windows built at startup and for those added by Cmd+A later.
C11_Painted ==
    pc = "running" =>
        /\ Color_id(color) = DerivedColor
        /\ \A i \in 1..Len(windows) : windows[i].background = DerivedColor

\* C11's case: a window added by Cmd+A after the colour was changed (bright,
\* away from the initial temperature) stands beside a startup window.
C11_Witness ==
    /\ pc = "running"
    /\ ~color.dark
    /\ color.temperature # InitialTemperature
    /\ \E i, j \in 1..Len(windows) :
          /\ windows[i].id = 1
          /\ windows[j].id > Len(available)

\* C12: the temperature is always a multiple of 100 within [1500, 6600].
C12_TemperatureRange ==
    /\ color.temperature >= 1500
    /\ color.temperature <= 6600
    /\ color.temperature % 100 = 0

\* C12's case: `=` events took the temperature from 5500 to the upper bound.
C12_Witness ==
    /\ pc = "running"
    /\ color.temperature = 6600
    /\ windows # << >>

\* ------------------------------------------- removal and the guards (Spec)
\* A call of the closure that reaches remove(&mut windows, id): Close
\* requested, Escape released or an accepted Cmd+W for the window id.
CallsRemove(id) ==
    \/ CloseRequested(id)
    \/ EscapeReleased(id)
    \/ (WPressed(id) /\ accepted(released_w))

\* C14: remove(windows, id) removes exactly the window whose identifier is id
\* and returns true when it is open (every other window stays, and the exit
\* is requested when the set became empty); when no open window has
\* the identifier it returns false, the window set is unchanged and no exit
\* is requested.
C14_Remove ==
    [][\A id \in WindowIds :
          CallsRemove(id) =>
             IF id \in OpenIds(windows)
             THEN /\ remove(windows, id).ret
                  /\ Len(windows') = Len(windows) - 1
                  /\ Range(windows') = { w \in Range(windows) : w.id # id }
                  /\ (windows' = << >>) => (control_flow' = "Exit" /\ graceful')
             ELSE /\ ~remove(windows, id).ret
                  /\ windows' = windows
                  /\ graceful' = graceful
                  /\ (control_flow' = "Exit") <=> (control_flow = "Exit")]_vars

\* Window 1 of three was removed (the last one took its place) and its
\* identifier is now stale, while the loop has not been asked to exit.
C14_Witness ==
    /\ pc = "running"
    /\ control_flow # "Exit"
    /\ Len(windows) = 2
    /\ windows[1].id = 3
    /\ windows[2].id = 2

\* C16: with a fixed monitor list and windows that stay on their monitor, no
\* two open windows cover the same monitor, whatever windows were added and
\* removed, so there are never more open windows than monitors.
C16_OnePerMonitor ==
    /\ \A i, j \in 1..Len(windows) :
          i # j => windows[i].monitor # windows[j].monitor
    /\ \A i \in 1..Len(windows) : windows[i].monitor \in Range(available)
    /\ Len(windows) <= Len(available)

\* Every monitor is covered again after windows were removed and added.
C16_Witness ==
    /\ pc = "running"
    /\ Len(available) = MaxMonitors
    /\ Len(windows) = Len(available)
    /\ \E i \in 1..Len(windows) : windows[i].id > Len(available)

\* C17: a Pressed event for A, W or Q that arrives while the modifiers are
\* not exactly the command modifier leaves the window set, the three
\* key-repeat guards, the graceful flag and the exit request unchanged.
C17_WrongModifiers ==
    [][(/\ current_modifiers # LOGO
        /\ \E id \in WindowIds : APressed(id) \/ WPressed(id) \/ QPressed(id))
       => /\ UNCHANGED << windows, released_a, released_w, released_q, graceful >>
          /\ (control_flow' = "Exit") <=> (control_flow = "Exit")]_vars

\* Command plus shift is held, all three guards are set and windows are open:
\* each of the three keys would act if the modifiers were the command one.
C17_Witness ==
    /\ pc = "running"
    /\ current_modifiers = {"LOGO", "SHIFT"}
    /\ released_a /\ released_w /\ released_q
    /\ windows # << >>
    /\ Len(windows) < Len(available)
    /\ control_flow # "Exit"

\* --------------------------------------- the cursor-idle timer (SpecCursor)
\* The program started dark with no argument.
InitCursor ==
    /\ Init
    /\ argv = << "blank" >>

\* A window event of the user: the cursor moves over a window, or a window
\* is asked to close.
UIEvent ==
    \/ \E id \in WindowIds : CursorMoved(id)
    \/ \E id \in WindowIds : CloseRequested(id)

\* The calls of the closure that concern the cursor timer, and the clock.
NextCursor ==
    \/ Startup
    \/ NewEventsPoll
    \/ OtherEvent
    \/ UIEvent
    \/ TimePasses

SpecCursor == InitCursor /\ [][NextCursor]_vars

\* The cursor-idle timer is pending for the window id.
TimerPending(id) == cursor_timer # << >> /\ cursor_timer[1].id = id

\* The cursor of the window id is hidden, if the window is open.
Hidden(id) ==
    \A i \in 1..Len(windows) : windows[i].id = id => ~windows[i].cursor_visible

\* C15, as stated: an open window has its cursor visible only if the
\* cursor-idle timer is pending for that same window; with no timer pending
\* every open window has its cursor hidden.
C15_VisibleOnlyWhilePending ==
    \A i \in 1..Len(windows) :
       windows[i].cursor_visible => TimerPending(windows[i].id)

\* ---------------------------------- the timer left alone (SpecCursorIdle)
\* The second runs out only after the batch of the cursor move has ended:
\* a pending timer with the control flow at Wait is the state between the
\* CursorMoved call and the MainEventsCleared call of the same batch, which
\* follow each other without blocking.
SecondElapses == TimePasses /\ control_flow # "Wait"

\* No further UI event arrives while a timer is pending: window events are
\* delivered only while cursor_timer is None.
NextCursorIdle ==
    \/ Startup
    \/ NewEventsPoll
    \/ OtherEvent
    \/ (cursor_timer = << >> /\ UIEvent)
    \/ SecondElapses

\* The MainEventsCleared with which winit ends the batch of the cursor move
\* that started the timer: the call entered with a timer pending and the
\* control flow at Wait.
MainEventsCleared == OtherEvent /\ cursor_timer # << >> /\ control_flow = "Wait"

\* winit ends every batch of events with MainEventsCleared, so the closure is
\* called once more after the cursor move; while the control flow is Poll it
\* sends NewEvents(StartCause::Poll) without waiting; and the clock advances.
\* With the control flow at Wait and no event, nothing calls the closure.
SpecCursorIdle ==
    /\ InitCursor
    /\ [][NextCursorIdle]_vars
    /\ WF_vars(MainEventsCleared)
    /\ WF_vars(NewEventsPoll)
    /\ WF_vars(SecondElapses)

\* A cursor move has started the timer for the open window id.
TimerStarted(id) == pc = "running" /\ TimerPending(id) /\ id \in OpenIds(windows)

\* C13: once a cursor move has started the timer for an open window, the
\* loop switches to polling, and, no further UI event arriving, the timer is
\* eventually found expired: it is cleared, the cursor of that window is
\* hidden and the loop is back in blocking wait.
C13_IdleTimer ==
    \A id \in 1..MaxWindowId :
       /\ TimerStarted(id) ~> (TimerPending(id) /\ control_flow = "Poll")
       /\ TimerStarted(id)
             ~> (cursor_timer = << >> /\ Hidden(id) /\ control_flow = "Wait")

\* The timer of an open window whose cursor is shown has run out while the
\* loop is polling: the next tick is the one that observes the expiry.
C13_Witness ==
    /\ pc = "running"
    /\ control_flow = "Poll"
    /\ cursor_timer # << >>
    /\ cursor_timer[1].expired
    /\ \E i \in 1..Len(windows) :
          windows[i].id = cursor_timer[1].id /\ windows[i].cursor_visible

====
